---- MODULE Spec2Model ----
(***************************************************************************)
(* Disposable-inbox demo: the bounded record store (db module), the App    *)
(* handlers that write to it, and the credential generator.                *)
(*                                                                         *)
(* A record is modelled by the two fields the store reads: its id (the     *)
(* key path of both object stores) and its timestamp (the key of the       *)
(* "timestamp" index and of the in-memory sort).  Ids are numbers whose    *)
(* order stands for the key order of the id strings.                       *)
(***************************************************************************)
EXTENDS Integers, Sequences, FiniteSets, TLC

\* ------------------------------------------------------------------ bounds

\* Capacity of each store.  The code's value is 100 (types.ts:106); the
\* model checks the same code at a scaled capacity.
STORE_LIMIT == 2

\* Ids and timestamps of the records the store harnesses persist.
MaxId == 3
MaxTime == 3

\* Number of persist calls in one run of the awaited-call harness.
MaxCalls == 3

\* Number of calls in one run of the overlapping-call harness.
MaxOverlap == 4

\* Length cap of the UI-facing lists.  The code's value is 150
\* (types.ts:814, 857); scaled with STORE_LIMIT, and larger than it.
UI_LIMIT == 3

\* Number of records the App creates in one run.
MaxRecords == 2

\* ------------------------------------------------------------ store names

STORE_CREDENTIALS == "credentials"
STORE_MESSAGES == "messages"
Stores == {STORE_CREDENTIALS, STORE_MESSAGES}

MkRecord(i, t) == [id |-> i, timestamp |-> t]
HarnessRecords == {MkRecord(i, t) : i \in 1..MaxId, t \in 1..MaxTime}
NoRecord == [id |-> 0, timestamp |-> 0]

Min(a, b) == IF a < b THEN a ELSE b

SeqToSet(s) == {s[i] : i \in 1..Len(s)}

\* --------------------------------------------------- in-memory fallback

\* Array.prototype.sort with (a, b) => b.timestamp - a.timestamp is a stable
\* sort: pushing r at the end of an array that is already in descending
\* order and sorting puts r after every element whose timestamp is >= its
\* own.
InsertDesc(sorted, r) ==
  LET k == Cardinality({i \in 1..Len(sorted) : sorted[i].timestamp >= r.timestamp})
  IN SubSeq(sorted, 1, k) \o <<r>> \o SubSeq(sorted, k + 1, Len(sorted))

RECURSIVE SortDesc(_)
SortDesc(arr) ==
  IF arr = <<>> THEN <<>>
  ELSE InsertDesc(SortDesc(SubSeq(arr, 1, Len(arr) - 1)), arr[Len(arr)])

\* A push that leaves the array in insertion order.
MemPushNoSort(arr, r) == Append(arr, r)

\* inMemoryX.push(record); inMemoryX.sort(...)
MemPush(arr, r) == SortDesc(Append(arr, r))

\* arr.splice(0, arr.length - STORE_LIMIT), under its guard
\* arr.length > STORE_LIMIT: removes the first length - STORE_LIMIT elements.
MemSplice(arr) ==
  IF Len(arr) > STORE_LIMIT
  THEN SubSeq(arr, Len(arr) - STORE_LIMIT + 1, Len(arr))
  ELSE arr

\* ------------------------------------------------------ IndexedDB backing

\* An object store with keyPath "id": a set of records, at most one per id.
\* store.put(record) replaces the record with the same key.
IdbPut(table, r) == {x \in table : x.id # r.id} \cup {r}

\* index("timestamp").openCursor(null, "prev"): descending index key, and
\* descending primary key among equal index keys.
Before(a, b) ==
  \/ a.timestamp > b.timestamp
  \/ a.timestamp = b.timestamp /\ a.id > b.id

RECURSIVE CursorPrev(_)
CursorPrev(table) ==
  IF table = {} THEN <<>>
  ELSE LET first == CHOOSE x \in table : \A y \in table \ {x} : Before(x, y)
       IN <<first>> \o CursorPrev(table \ {first})

\* The cursor loop of trimStore: count++ on every record visited,
\* cursor.delete() once count > STORE_LIMIT.
IdbTrim(table) ==
  LET c == CursorPrev(table)
  IN {c[i] : i \in 1..Min(Len(c), STORE_LIMIT)}

\* ------------------------------------------------------- the db module
\* The state of the db module in one environment is a record:
\*   hasIndexedDB  what hasIndexedDB() returns there
\*   tables        the IndexedDB object stores: store name -> set of records
\*   inMemory      inMemoryCredentials / inMemoryMessages: store name -> array
\*   queue         the requests made to the IndexedDB and not yet finished,
\*                 in the order openDatabase was called for them
\*   fetched       store name -> the state of the last fetchRecords call
\*   settled       the persist calls that have resolved or rejected
\*   openReached   whether openDatabase was ever called
\* Open requests on one database are served in order and transactions on
\* one object store run in the order they were created, so the requests of
\* one store finish in queue order; requests of different stores finish in
\* any order.

NotFetched == [status |-> "none", val |-> <<>>]

DbInit(idb) ==
  [hasIndexedDB |-> idb,
   tables |-> [s \in Stores |-> {}],
   inMemory |-> [s \in Stores |-> <<>>],
   queue |-> <<>>,
   fetched |-> [s \in Stores |-> NotFetched],
   settled |-> {},
   openReached |-> FALSE]

Request(kind, s, r) == [kind |-> kind, store |-> s, rec |-> r]
Outcome(s, r, ok) == [store |-> s, rec |-> r, ok |-> ok]

\* openDatabase() called on behalf of request q: the request waits in the
\* queue; it is rejected when hasIndexedDB() is false (FailRequest).
openDatabase(st, q) ==
  [st EXCEPT !.queue = Append(@, q), !.openReached = TRUE]

\* trimStore without the fallback branch.
trimStoreNoFallback(st, storeName, r) ==
  openDatabase(st, Request("trim", storeName, r))

\* trimStore(storeName), up to its first await.  r names the persist call
\* that awaits it: in the fallback branch trimStore returns and that call
\* resolves with it.
trimStore(st, storeName, r) ==
  IF ~st.hasIndexedDB
  THEN LET m1 == IF storeName = STORE_CREDENTIALS
                 THEN [st.inMemory EXCEPT ![STORE_CREDENTIALS] = MemSplice(@)]
                 ELSE st.inMemory
           m2 == IF storeName = STORE_MESSAGES
                 THEN [m1 EXCEPT ![STORE_MESSAGES] = MemSplice(@)]
                 ELSE m1
       IN [st EXCEPT !.inMemory = m2,
                     !.settled = @ \cup {Outcome(storeName, r, TRUE)}]
  ELSE openDatabase(st, Request("trim", storeName, r))

\* persistCredential(record), up to its first await.
persistCredential(st, r) ==
  IF ~st.hasIndexedDB
  THEN trimStore([st EXCEPT !.inMemory[STORE_CREDENTIALS] = MemPush(@, r)],
                 STORE_CREDENTIALS, r)
  ELSE openDatabase(st, Request("put", STORE_CREDENTIALS, r))

\* persistMessage writing where persistCredential writes.
persistMessageIntoCredentials(st, r) ==
  IF ~st.hasIndexedDB
  THEN trimStore([st EXCEPT !.inMemory[STORE_CREDENTIALS] = MemPush(@, r)],
                 STORE_MESSAGES, r)
  ELSE openDatabase(st, Request("put", STORE_CREDENTIALS, r))

\* persistMessage(record), up to its first await.
persistMessage(st, r) ==
  IF ~st.hasIndexedDB
  THEN trimStore([st EXCEPT !.inMemory[STORE_MESSAGES] = MemPush(@, r)],
                 STORE_MESSAGES, r)
  ELSE openDatabase(st, Request("put", STORE_MESSAGES, r))

persist(st, s, r) ==
  IF s = STORE_CREDENTIALS THEN persistCredential(st, r) ELSE persistMessage(st, r)

\* fetchRecords(storeName), up to its first await.
fetchRecords(st, storeName) ==
  IF ~st.hasIndexedDB
  THEN [st EXCEPT !.fetched[storeName] =
          [status |-> "ok",
           val |-> IF storeName = STORE_CREDENTIALS THEN st.inMemory[STORE_CREDENTIALS]
                   ELSE IF storeName = STORE_MESSAGES THEN st.inMemory[STORE_MESSAGES]
                   ELSE <<>>]]
  ELSE openDatabase([st EXCEPT !.fetched[storeName] = [status |-> "pending", val |-> <<>>]],
                    Request("read", storeName, NoRecord))

loadCredentials(st) == fetchRecords(st, STORE_CREDENTIALS)
loadMessages(st) == fetchRecords(st, STORE_MESSAGES)

RemoveAt(q, i) == SubSeq(q, 1, i - 1) \o SubSeq(q, i + 1, Len(q))

\* The requests that can finish next: the first one of each store.
Heads(st) ==
  {i \in 1..Len(st.queue) :
     \A j \in 1..(i - 1) : st.queue[j].store # st.queue[i].store}

\* The put transaction of persistCredential / persistMessage completes:
\* the record is stored, db.close(), and trimStore is called.
PutCommit(st, i) ==
  LET q == st.queue[i]
  IN trimStore([st EXCEPT !.tables[q.store] = IdbPut(@, q.rec),
                          !.queue = RemoveAt(@, i)],
               q.store, q.rec)

\* The readwrite transaction of trimStore completes: the records past
\* STORE_LIMIT are deleted, db.close(), and the persist call resolves.
TrimCommit(st, i) ==
  LET q == st.queue[i]
  IN [st EXCEPT !.tables[q.store] = IdbTrim(@),
                !.queue = RemoveAt(@, i),
                !.settled = @ \cup {Outcome(q.store, q.rec, TRUE)}]

\* The readonly transaction of fetchRecords completes: results holds the
\* records in cursor order.
ReadCommit(st, i) ==
  LET q == st.queue[i]
  IN [st EXCEPT !.queue = RemoveAt(@, i),
                !.fetched[q.store] = [status |-> "ok", val |-> CursorPrev(st.tables[q.store])]]

\* A request's open or transaction fails (request.onerror, tx.onerror,
\* cursorRequest.onerror): nothing is written and the call rejects.
FailRequest(st, i) ==
  LET q == st.queue[i]
  IN IF q.kind = "read"
     THEN [st EXCEPT !.queue = RemoveAt(@, i),
                     !.fetched[q.store] = [status |-> "failed", val |-> <<>>]]
     ELSE [st EXCEPT !.queue = RemoveAt(@, i),
                     !.settled = @ \cup {Outcome(q.store, q.rec, FALSE)}]

Commit(st, i) ==
  CASE st.queue[i].kind = "put" -> PutCommit(st, i)
    [] st.queue[i].kind = "trim" -> TrimCommit(st, i)
    [] st.queue[i].kind = "read" -> ReadCommit(st, i)

\* A call awaited to its end with every request succeeding.
RECURSIVE Await(_)
Await(st) ==
  IF st.queue = <<>> \/ ~st.hasIndexedDB THEN st ELSE Await(Commit(st, 1))

\* The caller drops the result of its earlier load.
Forget(st) == [st EXCEPT !.fetched = [s \in Stores |-> NotFetched]]

\* ---------------------------------------------------------------- state

VARIABLES
  db,          \* the db module where the program runs
  dbFallback,  \* awaited-call harness: the db module of a second run of the
               \* same calls, in an environment without IndexedDB
  inserted,    \* harness history: store name -> records persisted so far
  nCalls,      \* harness history: number of calls made
  last,        \* awaited-call harness: the last call and what it followed
  target,      \* awaited-call harness: the store this run exercises
  app,         \* the App component: its React state, refs and timers
  gen,         \* a call of generateSecurePassword
  pure         \* a call of another function of utils.ts: its input and result

vars == <<db, dbFallback, inserted, nCalls, last, target, app, gen, pure>>

\* No function of utils.ts has been called.
NoInput == [fn |-> "none"]

\* No call of generateSecurePassword has been made.
EmptyPassword == [len |-> 0, classes |-> {}]
GenIdle == [pc |-> "idle", length |-> 0, password |-> EmptyPassword, depth |-> 0,
            tailCalls |-> FALSE]

\* The App before it is mounted (the harnesses never mount it).
AppInit(supported, notifications, granted) ==
  [mounted |-> "no",
   credentials |-> <<>>,
   messages |-> <<>>,
   currentCredential |-> NoRecord,
   generatorTimeout |-> "null",
   timerId |-> 0,
   timers |-> 0,
   visibility |-> "visible",
   isNotificationSupported |-> supported,
   notifications |-> notifications,
   granted |-> granted,
   load |-> "idle",
   created |-> 0,
   uncaught |-> FALSE]

NoCall == [op |-> "none", store |-> "none", rec |-> NoRecord,
           newestIdb |-> FALSE, newestMem |-> FALSE]

\* ------------------------------------------- awaited-call harness (SpecSeq)
\* The same sequence of awaited calls is run in two environments: db is the
\* module where hasIndexedDB() is true and every request succeeds,
\* dbFallback the module where it is false.  One run exercises one store.

InitSeq ==
  /\ db = DbInit(TRUE)
  /\ dbFallback = DbInit(FALSE)
  /\ inserted = [s \in Stores |-> {}]
  /\ nCalls = 0
  /\ last = NoCall
  /\ target \in Stores
  /\ app = AppInit(FALSE, FALSE, FALSE)
  /\ gen = GenIdle
  /\ pure = NoInput

PersistAwaited(s, r) ==
  /\ target = s
  /\ nCalls < MaxCalls
  /\ db' = Await(persist(Forget(db), s, r))
  /\ dbFallback' = Await(persist(Forget(dbFallback), s, r))
  /\ inserted' = [inserted EXCEPT ![s] = @ \cup {r}]
  /\ nCalls' = nCalls + 1
  /\ last' = [op |-> "persist", store |-> s, rec |-> r,
              newestIdb |-> \A x \in db.tables[s] : x.timestamp < r.timestamp,
              newestMem |-> \A x \in SeqToSet(dbFallback.inMemory[s]) :
                               x.timestamp < r.timestamp]
  /\ UNCHANGED <<target, app, gen, pure>>

persistCredentialAwaited ==
  \E r \in HarnessRecords : PersistAwaited(STORE_CREDENTIALS, r)

persistMessageAwaited ==
  \E r \in HarnessRecords : PersistAwaited(STORE_MESSAGES, r)

\* loadCredentials / loadMessages awaited; last keeps the persist call that
\* came immediately before on the same store, if any.
LoadAwaited(s) ==
  /\ target = s
  /\ db' = Await(fetchRecords(Forget(db), s))
  /\ dbFallback' = Await(fetchRecords(Forget(dbFallback), s))
  /\ last' = IF last.op = "persist" /\ last.store = s
             THEN [last EXCEPT !.op = "load"]
             ELSE [NoCall EXCEPT !.op = "load", !.store = s]
  /\ UNCHANGED <<inserted, nCalls, target, app, gen, pure>>

loadCredentialsAwaited == LoadAwaited(STORE_CREDENTIALS)
loadMessagesAwaited == LoadAwaited(STORE_MESSAGES)

NextSeq ==
  \/ persistCredentialAwaited
  \/ persistMessageAwaited
  \/ loadCredentialsAwaited
  \/ loadMessagesAwaited

SpecSeq == InitSeq /\ [][NextSeq]_vars

\* ------------------------------------------------ claims on SpecSeq

Distinct(S) ==
  \A a, b \in S : a # b => (a.id # b.id /\ a.timestamp # b.timestamp)

\* The n records of S with the largest timestamps.
MostRecent(S, n) ==
  {x \in S : Cardinality({y \in S : y.timestamp > x.timestamp}) < n}

NonIncreasing(sq) ==
  \A i \in 1..(Len(sq) - 1) : sq[i].timestamp >= sq[i + 1].timestamp

NoSharedId(sq) ==
  \A i, j \in 1..Len(sq) : i # j => sq[i].id # sq[j].id

Loaded(st, s) == st.fetched[s].status = "ok"

\* More than STORE_LIMIT records, distinct in id and timestamp, have been
\* persisted to s one call at a time, each call with another record.
OverfilledDistinct(s) ==
  /\ Distinct(inserted[s])
  /\ Cardinality(inserted[s]) = nCalls
  /\ nCalls > STORE_LIMIT

CapacityLawIn(st, s) ==
  (Loaded(st, s) /\ OverfilledDistinct(s)) =>
    /\ SeqToSet(st.fetched[s].val) = MostRecent(inserted[s], STORE_LIMIT)
    /\ Len(st.fetched[s].val) = STORE_LIMIT

\* C1: in both store modes, after more than STORE_LIMIT records with distinct
\* ids and distinct timestamps have been persisted one awaited call at a
\* time, a load returns exactly the STORE_LIMIT records with the largest
\* timestamps.
C1_CapacityLaw ==
  \A s \in Stores : CapacityLawIn(db, s) /\ CapacityLawIn(dbFallback, s)

\* The IndexedDB half of C1, which the code satisfies.
CapacityLawIndexedDB == \A s \in Stores : CapacityLawIn(db, s)

RoundTripIn(st, s, newest) ==
  (Loaded(st, s) /\ last.op = "load" /\ last.store = s /\ last.rec # NoRecord /\ newest) =>
    /\ st.fetched[s].val # <<>>
    /\ st.fetched[s].val[1] = last.rec

\* C2: in both store modes, a load that immediately follows a resolved
\* persist of a record whose timestamp was greater than every stored
\* timestamp returns that record first.
C2_RoundTrip ==
  \A s \in Stores :
    /\ RoundTripIn(db, s, last.newestIdb)
    /\ RoundTripIn(dbFallback, s, last.newestMem)

\* The IndexedDB half of C2, which the code satisfies.
RoundTripIndexedDB == \A s \in Stores : RoundTripIn(db, s, last.newestIdb)

\* C3: after the same sequence of awaited persist and load calls the two
\* store modes return the same sequence of records from every load.
C3_ModesEquivalent ==
  \A s \in Stores :
    (Loaded(db, s) /\ Loaded(dbFallback, s)) =>
      db.fetched[s].val = dbFallback.fetched[s].val

UpsertIn(st, s) ==
  Loaded(st, s) =>
    /\ NoSharedId(st.fetched[s].val)
    /\ (last.op = "load" /\ last.store = s /\ last.rec # NoRecord) =>
         \A i \in 1..Len(st.fetched[s].val) :
           st.fetched[s].val[i].id = last.rec.id => st.fetched[s].val[i] = last.rec

\* C4: in both store modes no two records returned by a load share an id,
\* and the only record with the id of the record just persisted is that
\* record.
C4_UpsertById ==
  \A s \in Stores : UpsertIn(db, s) /\ UpsertIn(dbFallback, s)

\* The IndexedDB half of C4, which the code satisfies.
UpsertIndexedDB == \A s \in Stores : UpsertIn(db, s)

\* C5: in both store modes, after any sequence of awaited persist calls a
\* load resolves with all the records the store holds, in non-increasing
\* timestamp order; on an empty store it resolves with the empty sequence.
C5_LoadOrdered ==
  \A s \in Stores :
    /\ (last.op = "load" /\ last.store = s) =>
         (Loaded(db, s) /\ Loaded(dbFallback, s))
    /\ Loaded(db, s) =>
         /\ NonIncreasing(db.fetched[s].val)
         /\ SeqToSet(db.fetched[s].val) = db.tables[s]
         /\ Len(db.fetched[s].val) = Cardinality(db.tables[s])
         /\ (inserted[s] = {} => db.fetched[s].val = <<>>)
    /\ Loaded(dbFallback, s) =>
         /\ NonIncreasing(dbFallback.fetched[s].val)
         /\ dbFallback.fetched[s].val = dbFallback.inMemory[s]
         /\ (inserted[s] = {} => dbFallback.fetched[s].val = <<>>)

\* A load right after persisting a record older than one already stored:
\* both modes return the stored records with the record just persisted in
\* second place.
C5_Witness ==
  /\ last.op = "load" /\ last.rec # NoRecord
  /\ \A st \in {db, dbFallback} :
       /\ Loaded(st, last.store)
       /\ Len(st.fetched[last.store].val) = STORE_LIMIT
       /\ st.fetched[last.store].val[2] = last.rec
       /\ st.fetched[last.store].val[1].timestamp > last.rec.timestamp

\* --------------------------------------- overlapping-call harness (SpecStore)
\* A caller of the db module that does not await: calls start while earlier
\* ones are in flight, in an environment with or without IndexedDB, and
\* every request to the IndexedDB may fail.  As in the App, each persisted
\* record is new: its id is unused and its timestamp is the latest.

InitStore ==
  /\ db \in {DbInit(TRUE), DbInit(FALSE)}
  /\ dbFallback = DbInit(FALSE)
  /\ inserted = [s \in Stores |-> {}]
  /\ nCalls = 0
  /\ last = NoCall
  /\ target = "none"
  /\ app = AppInit(FALSE, FALSE, FALSE)
  /\ gen = GenIdle
  /\ pure = NoInput

CallPersist(s, r) ==
  /\ nCalls < MaxOverlap
  /\ db' = persist(db, s, r)
  /\ inserted' = [inserted EXCEPT ![s] = @ \cup {r}]
  /\ nCalls' = nCalls + 1
  /\ UNCHANGED <<dbFallback, last, target, app, gen, pure>>

NewRecord == MkRecord(nCalls + 1, nCalls + 1)

callPersistCredential == CallPersist(STORE_CREDENTIALS, NewRecord)
callPersistMessage == CallPersist(STORE_MESSAGES, NewRecord)

\* The caller holds one load per store at a time.
CallLoad(s) ==
  /\ nCalls < MaxOverlap
  /\ db.fetched[s].status # "pending"
  /\ db' = fetchRecords(db, s)
  /\ nCalls' = nCalls + 1
  /\ UNCHANGED <<dbFallback, inserted, last, target, app, gen, pure>>

callLoadCredentials == CallLoad(STORE_CREDENTIALS)
callLoadMessages == CallLoad(STORE_MESSAGES)

\* openDatabase resolves only where hasIndexedDB() is true.
RequestCompletes(kind) ==
  \E i \in Heads(db) :
    /\ db.hasIndexedDB
    /\ db.queue[i].kind = kind
    /\ db' = Commit(db, i)

putCompletes ==
  RequestCompletes("put") /\ UNCHANGED <<dbFallback, inserted, nCalls, last, target, app, gen, pure>>
trimCompletes ==
  RequestCompletes("trim") /\ UNCHANGED <<dbFallback, inserted, nCalls, last, target, app, gen, pure>>
readCompletes ==
  RequestCompletes("read") /\ UNCHANGED <<dbFallback, inserted, nCalls, last, target, app, gen, pure>>

requestFails ==
  /\ \E i \in Heads(db) : db' = FailRequest(db, i)
  /\ UNCHANGED <<dbFallback, inserted, nCalls, last, target, app, gen, pure>>

NextStore ==
  \/ callPersistCredential
  \/ callPersistMessage
  \/ callLoadCredentials
  \/ callLoadMessages
  \/ putCompletes
  \/ trimCompletes
  \/ readCompletes
  \/ requestFails

SpecStore == InitStore /\ [][NextStore]_vars

\* ------------------------------------------------ claims on SpecStore

\* C6: no load ever returns more than STORE_LIMIT records, including a load
\* that runs while a persist call on the same store is in flight.
C6_LoadWithinCapacity ==
  \A s \in Stores : Loaded(db, s) => Len(db.fetched[s].val) <= STORE_LIMIT

\* The persisted set itself never exceeds STORE_LIMIT records.
PersistedWithinCapacity ==
  \A s \in Stores :
    /\ Cardinality(db.tables[s]) <= STORE_LIMIT
    /\ Len(db.inMemory[s]) <= STORE_LIMIT

PendingTrims(s) ==
  {i \in 1..Len(db.queue) : db.queue[i].kind = "trim" /\ db.queue[i].store = s}

\* C7: writes to one store are serialized: no put commits while another
\* persist call on the same store has put and not yet trimmed.  A put that
\* commits in between leaves the trims of both calls pending, so the claim
\* is that at most one trim per store is ever pending.
C7_WritesSerialized ==
  \A s \in Stores : Cardinality(PendingTrims(s)) <= 1

\* C8: without IndexedDB no persist or load call rejects, every persist call
\* made has resolved, and openDatabase is never reached.
C8_FallbackNeverRejects ==
  ~db.hasIndexedDB =>
    /\ ~db.openReached
    /\ db.queue = <<>>
    /\ \A o \in db.settled : o.ok
    /\ \A s \in Stores :
         /\ db.fetched[s].status \in {"none", "ok"}
         /\ \A r \in inserted[s] : Outcome(s, r, TRUE) \in db.settled

\* Without IndexedDB: persist calls on both stores have resolved and a load
\* has returned records.
C8_Witness ==
  /\ ~db.hasIndexedDB
  /\ \A s \in Stores : \E o \in db.settled : o.store = s /\ o.ok
  /\ \E s \in Stores : Loaded(db, s) /\ db.fetched[s].val # <<>>

\* What a store holds: its object store and its in-memory array.
Content(st, s) == <<st.tables[s], st.inMemory[s]>>

\* The step is a stage of a persist call on store s: the call itself, or
\* the completion of its put or of its trim.
PersistStage(s) ==
  \/ db' = persist(db, s, NewRecord)
  \/ \E i \in Heads(db) :
       /\ db.queue[i].store = s
       /\ db.queue[i].kind \in {"put", "trim"}
       /\ db' = Commit(db, i)

\* C26: the two stores are independent, with and without IndexedDB and in
\* every interleaving: a persistCredential call leaves what the messages
\* store holds unchanged, a persistMessage call leaves what the credentials
\* store holds unchanged, a store changes only in a stage of a persist call
\* on that store, and a store holds only records persisted to it.
C26_StoresIndependent ==
  [][/\ callPersistCredential =>
          Content(db', STORE_MESSAGES) = Content(db, STORE_MESSAGES)
     /\ callPersistMessage =>
          Content(db', STORE_CREDENTIALS) = Content(db, STORE_CREDENTIALS)
     /\ \A s \in Stores :
          /\ Content(db', s) # Content(db, s) => PersistStage(s)
          /\ db'.tables[s] \cup SeqToSet(db'.inMemory[s]) \subseteq inserted'[s]
          /\ \A t \in Stores \ {s} :
               (PersistStage(s) /\ ~PersistStage(t))
                 => Content(db', t) = Content(db, t)]_vars

\* With IndexedDB: both stores hold a record, a credential's put and a
\* message's trim are in flight together.
C26_Witness ==
  /\ db.hasIndexedDB
  /\ \A s \in Stores : db.tables[s] # {}
  /\ \E i, j \in 1..Len(db.queue) :
       /\ db.queue[i].store = STORE_CREDENTIALS /\ db.queue[i].kind = "put"
       /\ db.queue[j].store = STORE_MESSAGES /\ db.queue[j].kind = "trim"

\* ------------------------------------------------------------------ the App
\* app is the component's state: the React state (credentials, messages,
\* currentCredential, settings.notifications, isNotificationSupported), the
\* ref generatorTimeout ("null", "live": the handle of a pending timer,
\* "dead": the handle of a timer that fired or was cleared), the handle
\* window.setTimeout returned last (timerId: 0 or 1, a new handle differs
\* from the one before), the number of pending synthesis timers, the closure variable active of the load effect
\* (load), and what the environment gives (visibility, granted: whether
\* Notification.permission is "granted").  created counts the records made;
\* uncaught tells that an exception has escaped a handler.
\* A handler is an operator on a world: the app, the db module, and exc,
\* which is TRUE once an exception is propagating.

World(a, d) == [app |-> a, db |-> d, exc |-> FALSE]

Take(sq, n) == SubSeq(sq, 1, Min(Len(sq), n))

\* Records of an earlier session: ids and timestamps 1..k.
Prior(k) == {MkRecord(i, i) : i \in 1..k}

\* The most records an earlier session is taken to have left in a store:
\* puts that committed and whose trims never ran (a failed trim, a page
\* closed between the put and the trim) leave it over STORE_LIMIT.
MaxPrior == UI_LIMIT + 1

\* crypto.randomUUID() and Date.now(): an unused id, the latest timestamp.
FreshRecord(w) == MkRecord(MaxPrior + w.app.created + 1, MaxPrior + w.app.created + 1)

\* showNotification(record); throws tells whether the Notification
\* constructor throws when it is reached.
showNotification(w, record, throws) ==
  IF ~w.app.isNotificationSupported THEN w
  ELSE IF ~w.app.notifications THEN w
  ELSE IF ~w.app.granted THEN w
  ELSE IF throws THEN [w EXCEPT !.exc = TRUE]
  ELSE w

\* createMessageRecord(): the record made, and the count of records.
createMessageRecord(w) == [w EXCEPT !.app.created = @ + 1]

\* pushMessage with the notification shown before the record is
\* persisted.
pushMessageNotifyFirst(w, record, throws) ==
  LET w1 == [w EXCEPT !.app.messages = Take(<<record>> \o @, UI_LIMIT)]
      w2 == showNotification(w1, record, throws)
  IN IF w2.exc THEN w2 ELSE [w2 EXCEPT !.db = persistMessage(@, record)]

\* pushMessage(record)
pushMessage(w, record, throws) ==
  LET w1 == [w EXCEPT !.app.messages = Take(<<record>> \o @, UI_LIMIT)]
      w2 == [w1 EXCEPT !.db = persistMessage(@, record)]
  IN showNotification(w2, record, throws)

\* A cleanup that clears nothing.
clearNothing(a) == a

\* if (generatorTimeout.current) window.clearTimeout(generatorTimeout.current)
clearGeneratorTimeout(a) ==
  IF a.generatorTimeout = "live"
  THEN [a EXCEPT !.timers = @ - 1, !.generatorTimeout = "dead"]
  ELSE a

\* scheduleNextMessage without the clearTimeout of the pending timer.
scheduleNextMessageNoClear(w) ==
  [w EXCEPT !.app = [w.app EXCEPT !.timers = @ + 1, !.generatorTimeout = "live",
                                  !.timerId = 1 - @]]

\* scheduleNextMessage(): clears the timer of the ref and arms a new one.
scheduleNextMessage(w) ==
  LET a == clearGeneratorTimeout(w.app)
  IN [w EXCEPT !.app = [a EXCEPT !.timers = @ + 1, !.generatorTimeout = "live",
                                 !.timerId = 1 - @]]

\* The body shared by the timer callback and handleRefreshMessages:
\* createMessageRecord, pushMessage, scheduleNextMessage; an exception
\* thrown by pushMessage skips the rest.
SynthesizeAndRearm(w, throws) ==
  LET w1 == pushMessage(createMessageRecord(w), FreshRecord(w), throws)
  IN IF w1.exc THEN w1 ELSE scheduleNextMessage(w1)

\* handleGenerateCredential()
handleGenerateCredential(w) ==
  LET record == FreshRecord(w)
  IN [w EXCEPT !.app.created = @ + 1,
               !.app.currentCredential = record,
               !.app.credentials = Take(<<record>> \o @, UI_LIMIT),
               !.db = persistCredential(@, record)]

\* The continuation of the load effect after
\* await Promise.all([loadCredentials(), loadMessages()]).
LoadContinuation(w) ==
  LET fc == w.db.fetched[STORE_CREDENTIALS]
      fm == w.db.fetched[STORE_MESSAGES]
  IN IF w.app.load # "loading" THEN w
     ELSE IF fc.status = "failed" \/ fm.status = "failed"
     THEN [w EXCEPT !.app.load = "done"]
     ELSE IF fc.status = "ok" /\ fm.status = "ok"
     THEN IF w.app.mounted # "yes"
          THEN [w EXCEPT !.app.load = "done"]
          ELSE [w EXCEPT !.app.load = "done",
                         !.app.credentials = fc.val,
                         !.app.currentCredential = IF fc.val # <<>> THEN fc.val[1] ELSE @,
                         !.app.messages = fm.val]
     ELSE w

\* The exception, if any, leaves the handler uncaught.
Settle(w) == [w.app EXCEPT !.uncaught = @ \/ w.exc]

\* -------------------------------------------------------- the App (Spec)

\* What an earlier session left in each object store: nothing, or a full
\* store.  The in-memory arrays are empty when the module is loaded.
PriorCounts == {0, STORE_LIMIT, MaxPrior}

\* <<"Notification" in window, Notification.permission = "granted">>
NotificationEnvs == {<<FALSE, FALSE>>, <<TRUE, FALSE>>, <<TRUE, TRUE>>}

Init ==
  /\ db \in {DbInit(FALSE)} \cup
            {[DbInit(TRUE) EXCEPT !.tables = [s \in Stores |-> Prior(k)]] :
               k \in PriorCounts}
  /\ app \in {AppInit(env[1], ntf, env[2]) : env \in NotificationEnvs, ntf \in BOOLEAN}
  /\ dbFallback = DbInit(FALSE)
  /\ inserted = [s \in Stores |-> {}]
  /\ nCalls = 0
  /\ last = NoCall
  /\ target = "none"
  /\ gen = GenIdle
  /\ pure = NoInput

harnessVars == <<dbFallback, inserted, nCalls, last, target, gen, pure>>

\* First render and its effects, in source order: the load effect calls
\* loadCredentials() and loadMessages(); the scheduler effect arms the
\* timer; currentCredential is null, so a credential is generated.  Where
\* requestPermission() answers "granted", settings.notifications is set.
\* Without IndexedDB both loads are already resolved and the continuation
\* of the load effect runs before any other task.
Mount ==
  /\ app.mounted = "no"
  /\ LET a0 == [app EXCEPT !.mounted = "yes",
                           !.notifications = @ \/ (app.isNotificationSupported /\ app.granted)]
         w1 == [World(a0, loadMessages(loadCredentials(db))) EXCEPT !.app.load = "loading"]
         w2 == scheduleNextMessage(w1)
         w3 == handleGenerateCredential(w2)
         w4 == LoadContinuation(w3)
     IN /\ app' = Settle(w4)
        /\ db' = w4.db
  /\ UNCHANGED harnessVars

\* An unmount whose cleanup also abandons the requests in flight.
UnmountDroppingWrites ==
  /\ app.mounted = "yes"
  /\ app' = [clearGeneratorTimeout(app) EXCEPT !.mounted = "gone"]
  /\ db' = [db EXCEPT !.queue = <<>>]
  /\ UNCHANGED harnessVars

\* Unmount: the cleanups of the load effect (active = false) and of the
\* scheduler effect.
Unmount ==
  /\ app.mounted = "yes"
  /\ app' = [clearGeneratorTimeout(app) EXCEPT !.mounted = "gone"]
  /\ UNCHANGED <<db, dbFallback, inserted, nCalls, last, target, gen, pure>>

\* A pending timer fires: the one the ref holds, or another one.
TimerFire ==
  /\ app.created < MaxRecords
  /\ \E viaRef \in BOOLEAN, throws \in BOOLEAN :
       /\ viaRef => app.generatorTimeout = "live"
       /\ ~viaRef => app.timers > (IF app.generatorTimeout = "live" THEN 1 ELSE 0)
       /\ LET a0 == [app EXCEPT !.timers = @ - 1,
                                !.generatorTimeout = IF viaRef THEN "dead" ELSE @]
              w == SynthesizeAndRearm(World(a0, db), throws)
          IN /\ app' = Settle(w)
             /\ db' = w.db
  /\ UNCHANGED harnessVars

handleRefreshMessages ==
  /\ app.mounted = "yes"
  /\ app.created < MaxRecords
  /\ \E throws \in BOOLEAN :
       LET w == SynthesizeAndRearm(World(app, db), throws)
       IN /\ app' = Settle(w)
          /\ db' = w.db
  /\ UNCHANGED harnessVars

\* The Generate button or its keyboard shortcut.
GenerateClick ==
  /\ app.mounted = "yes"
  /\ app.created < MaxRecords
  /\ LET w == handleGenerateCredential(World(app, db))
     IN /\ app' = Settle(w)
        /\ db' = w.db
  /\ UNCHANGED harnessVars

\* visibilitychange: handleVisibility re-arms when the page becomes visible.
handleVisibility ==
  /\ app.mounted = "yes"
  /\ LET a0 == [app EXCEPT !.visibility = IF @ = "visible" THEN "hidden" ELSE "visible"]
         w == IF a0.visibility = "visible"
              THEN scheduleNextMessage(World(a0, db))
              ELSE World(a0, db)
     IN app' = Settle(w)
  /\ UNCHANGED <<db, dbFallback, inserted, nCalls, last, target, gen, pure>>

\* handleSettingsChange("notifications", ...): showNotification, pushMessage
\* and scheduleNextMessage are re-created, so the scheduler effect is
\* cleaned up and run again.
handleSettingsChange ==
  /\ app.mounted = "yes"
  /\ LET a0 == [clearGeneratorTimeout(app) EXCEPT !.notifications = ~@]
     IN app' = Settle(scheduleNextMessage(World(a0, db)))
  /\ UNCHANGED <<db, dbFallback, inserted, nCalls, last, target, gen, pure>>

\* A request to the IndexedDB finishes; when it is the last one of the
\* load effect, the effect's continuation runs with it.
AppRequestCompletes(kind) ==
  \E i \in Heads(db) :
    /\ db.hasIndexedDB
    /\ db.queue[i].kind = kind
    /\ LET w == LoadContinuation(World(app, Commit(db, i)))
       IN /\ app' = Settle(w)
          /\ db' = w.db

appPutCompletes == AppRequestCompletes("put") /\ UNCHANGED harnessVars
appTrimCompletes == AppRequestCompletes("trim") /\ UNCHANGED harnessVars
appReadCompletes == AppRequestCompletes("read") /\ UNCHANGED harnessVars

appRequestFails ==
  /\ \E i \in Heads(db) :
       LET w == LoadContinuation(World(app, FailRequest(db, i)))
       IN /\ app' = Settle(w)
          /\ db' = w.db
  /\ UNCHANGED harnessVars

Next ==
  \/ Mount
  \/ Unmount
  \/ TimerFire
  \/ handleRefreshMessages
  \/ GenerateClick
  \/ handleVisibility
  \/ handleSettingsChange
  \/ appPutCompletes
  \/ appTrimCompletes
  \/ appReadCompletes
  \/ appRequestFails

Spec == Init /\ [][Next]_vars

\* ---------------------------------------------------- claims on Spec

UiList(s) == IF s = STORE_CREDENTIALS THEN app.credentials ELSE app.messages

\* r is in the list, or the cap has displaced it: the list is full of
\* records created after r.
ListedOrDisplaced(s, r) ==
  \/ r \in SeqToSet(UiList(s))
  \/ /\ Len(UiList(s)) = UI_LIMIT
     /\ \A x \in SeqToSet(UiList(s)) : x.timestamp > r.timestamp

\* C27: the UI-facing credentials list and messages list never hold more
\* than UI_LIMIT (150) records.
C27_UiListsCapped ==
  \A s \in Stores : Len(UiList(s)) <= UI_LIMIT

\* The rest of C27 alone: a record created in the session is put at the
\* head of its list, the list it is put in is cut to UI_LIMIT, and what is
\* cut is its tail (steps in which the load completes too are C29's).
CreatedAtHeadTailDropped ==
  [][(app'.created = app.created + 1 /\ (app'.load = "done" => app.load = "done")) =>
       \E s \in Stores :
         LET before == UiList(s)
             after == IF s = STORE_CREDENTIALS THEN app'.credentials
                      ELSE app'.messages
         IN /\ after = Take(<<FreshRecord(World(app, db))>> \o before, UI_LIMIT)
            /\ Len(after) <= UI_LIMIT]_vars

\* C28: at most one synthesis timer is pending in every reachable state,
\* and it is the one the ref generatorTimeout holds: after any sequence of
\* mount, timer fire, manual refresh, visibility change, settings change
\* and unmount no two timers are left that would both fire, and none is
\* left after the unmount.
C28_AtMostOneTimer ==
  /\ app.timers <= 1
  /\ app.timers = 1 => app.generatorTimeout = "live"
  /\ app.mounted # "yes" => app.timers = 0

\* A timer has fired and pushed a message, its callback has armed the
\* next one, and that one alone is pending.
C28_Witness ==
  /\ app.mounted = "yes"
  /\ app.messages # <<>>
  /\ app.created = MaxRecords
  /\ app.visibility = "visible"
  /\ app.timerId = 0
  /\ app.timers = 1

\* The records created in the session so far.
Created == {MkRecord(MaxPrior + k, MaxPrior + k) : k \in 1..app.created}

\* C29: a record added to a UI-facing list during the session stays in it
\* until the cap displaces it: while the App is mounted every record
\* created so far is in one of the two lists, or its list is full of newer
\* records; the completion of the initial load removes none.
C29_SessionRecordsStayListed ==
  app.mounted = "yes" =>
    \A r \in Created :
      \E s \in Stores : ListedOrDisplaced(s, r)

\* C30: whenever currentCredential is set it is a member of the UI-facing
\* credentials list, with and without IndexedDB and for every ordering of
\* the initial load and the start-up generation.
C30_CurrentCredentialListed ==
  app.currentCredential # NoRecord =>
    app.currentCredential \in SeqToSet(app.credentials)

\* What the claim says a manual refresh does, from state to state: one
\* record is created, it is put once at the head of the messages list and
\* handed once to persistMessage, and one timer is pending, a new one.
RefreshOutcome ==
  /\ app'.created = app.created + 1
  /\ app'.messages = Take(<<FreshRecord(World(app, db))>> \o app.messages, UI_LIMIT)
  /\ db' = persistMessage(db, FreshRecord(World(app, db)))
  /\ app'.timers = 1
  /\ app'.generatorTimeout = "live"
  /\ app'.timerId # app.timerId

\* C32: a manual refresh in any scheduler state creates exactly one
\* message record, pushes it once to the UI list and once to
\* persistMessage, and leaves exactly one pending timer with a freshly
\* drawn delay, replacing any timer that was pending before.
C32_RefreshPushesOnceAndRearms ==
  [][handleRefreshMessages => RefreshOutcome]_vars

\* The same where no exception leaves the handler.
RefreshReturningRearms ==
  [][(handleRefreshMessages /\ ~app'.uncaught) => RefreshOutcome]_vars

\* C9: with IndexedDB available, when the persist call of a record
\* rejects, the record is still in its UI-facing list while the App is
\* mounted, and the rejection stops nothing: unless an exception of another
\* origin escaped a handler, the scheduler that pushed a message is armed.
C9_RejectedStillListed ==
  \A o \in db.settled :
    (~o.ok /\ app.mounted = "yes") =>
      /\ ListedOrDisplaced(o.store, o.rec)
      /\ (o.store = STORE_MESSAGES /\ ~app.uncaught) => app.timers = 1

\* C18: while the App is mounted, a timer fire ends with the scheduler
\* armed: once the callback has run there is exactly one pending fire,
\* whatever became of the store write and of the notification.
C18_FireEndsArmed ==
  [][(TimerFire /\ app.mounted = "yes") => app'.timers = 1]_vars

\* While the App is mounted the scheduler is never idle.
NeverIdleWhileMounted == app.mounted = "yes" => app.timers = 1

\* A step that pushes a message: a record is created and the list of
\* messages gets it.
MessagePushed ==
  /\ app'.created = app.created + 1
  /\ app'.messages # app.messages

\* C19: a notification that fails never touches the store write: at every
\* push of a message, whether showNotification returns or throws, the db
\* module is left as persistMessage(record) leaves it, so the put and the
\* trim go on as after a notification that succeeded.
C19_NotificationFailureKeepsWrite ==
  [][MessagePushed => db' = persistMessage(db, FreshRecord(World(app, db)))]_vars

\* The notification of the only message pushed has thrown, and its
\* persistMessage has resolved after the put and the trim.
C19_Witness ==
  /\ app.uncaught
  /\ app.created = 2
  /\ Len(app.messages) > 0
  /\ db.hasIndexedDB
  /\ \E o \in db.settled :
       o.store = STORE_MESSAGES /\ o.ok /\ o.rec = app.messages[1]

\* C20: cancelling the scheduler is idempotent: in every state a cancel
\* leaves no pending fire and changes nothing but the timer, a second
\* cancel (or a cancel while idle) changes nothing at all, and arming after
\* a cancel leaves exactly one pending fire.
C20_CancelIdempotent ==
  LET once == clearGeneratorTimeout(app)
      twice == clearGeneratorTimeout(once)
      armed == scheduleNextMessage(World(once, db))
  IN /\ once.timers = 0
     /\ twice = once
     /\ app.timers = 0 => once = app
     /\ [once EXCEPT !.timers = app.timers,
                     !.generatorTimeout = app.generatorTimeout] = app
     /\ armed.app.timers = 1
     /\ armed.app.generatorTimeout = "live"
     /\ armed.db = db

\* The scheduler has been cancelled by the cleanup after a timer fire.
C20_Witness ==
  /\ app.mounted = "gone"
  /\ app.generatorTimeout = "dead"
  /\ app.timers = 0
  /\ Len(app.messages) > 0

\* The page becomes visible again.
VisibilityResume == app.visibility = "hidden" /\ app'.visibility = "visible"

\* C21: a visibility-resume re-arms the scheduler only when it is idle or
\* its timer is stale; a timer that is pending stays as it is, the same
\* timer with the same fire time, so resumes cannot keep postponing it.
C21_ResumeKeepsPendingTimer ==
  [][(VisibilityResume /\ app.mounted = "yes" /\ app.timers = 1
        /\ app.generatorTimeout = "live")
       => (app'.timers = 1 /\ app'.generatorTimeout = "live"
             /\ app'.timerId = app.timerId)]_vars

\* C22: the scheduler is paused while the page is hidden: no timer stays
\* pending, so no synthesis fires, until the page is visible again.
C22_PausedWhileHidden ==
  (app.mounted = "yes" /\ app.visibility = "hidden") => app.timers = 0

\* No timer fires while the page is hidden.
NoFireWhileHidden == [][TimerFire => app.visibility = "visible"]_vars

\* The scheduler is cancelled: the cleanup of the scheduler effect runs,
\* at the unmount or because a settings change re-creates
\* scheduleNextMessage.
CancelObserved ==
  /\ app.mounted = "yes"
  /\ app'.mounted = "gone" \/ app'.notifications # app.notifications

\* Request q of the queue is, after the step, still in flight, or followed
\* by the trim of its call, or finished.
Progressed(q) ==
  \/ \E j \in 1..Len(db'.queue) : db'.queue[j] = q
  \/ q.kind = "put" /\ \E j \in 1..Len(db'.queue) :
                          db'.queue[j] = Request("trim", q.store, q.rec)
  \/ q.kind # "read" /\ \E o \in db'.settled : o.store = q.store /\ o.rec = q.rec
  \/ q.kind = "read" /\ db'.fetched[q.store].status \in {"ok", "failed"}

\* C23: a cancel never drops a synthesis that has started: the callback
\* puts its record at the head of the list and calls persistMessage in the
\* step it runs in; a cancel that follows, also with the write in flight,
\* leaves the list and the db module as they are, and no step ever takes a
\* request out of the queue other than by finishing it.
C23_CancelKeepsStartedSynthesis ==
  [][/\ MessagePushed => /\ app'.messages[1] = FreshRecord(World(app, db))
                         /\ db' = persistMessage(db, app'.messages[1])
     /\ CancelObserved => (app'.messages = app.messages /\ db' = db)
     /\ \A i \in 1..Len(db.queue) : Progressed(db.queue[i])]_vars

\* The App is unmounted while the write of a message it pushed is in
\* flight: the put has been committed and the trim is queued.
C23_Witness ==
  /\ app.mounted = "gone"
  /\ \E i \in 1..Len(db.queue) :
       /\ db.queue[i] = Request("trim", STORE_MESSAGES, db.queue[i].rec)
       /\ db.queue[i].rec \in SeqToSet(app.messages)
       /\ db.queue[i].rec \in db.tables[STORE_MESSAGES]

\* C24: at start-up a credential is generated and persisted only when the
\* store holds none: where the credentials store holds a record when the
\* App mounts, the mount creates no record and calls no persistCredential.
C24_StartupCredentialOnlyIfNoneStored ==
  [][(app.mounted = "no" /\ app'.mounted = "yes"
        /\ db.tables[STORE_CREDENTIALS] # {})
       => /\ app'.created = app.created
          /\ \A i \in 1..Len(db'.queue) : db'.queue[i].kind # "put"]_vars

\* The second half of C9 alone, which the code satisfies: a rejected
\* persistMessage leaves the scheduler armed.
RejectedStillArmed ==
  \A o \in db.settled :
    (~o.ok /\ app.mounted = "yes" /\ o.store = STORE_MESSAGES /\ ~app.uncaught) =>
      app.timers = 1

\* =====================================================================
\* utils.ts: generateSecurePassword
\* =====================================================================
\* A character is modelled by its class, which is all the tests of
\* passwordHasRequirements and evaluateStrength look at; "_" is a class of
\* its own because the two tests disagree on it. A password is its length
\* and the set of classes of its characters.

StackLimit == 2    \* recursive calls the engine's call stack has room for

Repeat(c, n) == [i \in 1..n |-> c]

LETTERS == Repeat("lower", 26)
LETTERS_UPPER == Repeat("upper", Len(LETTERS))
NUMBERS == Repeat("digit", 10)
SYMBOLS == [i \in 1..23 |-> IF i = 12 THEN "underscore" ELSE "symbol"]

\* Values crypto.getRandomValues may store in the Uint32Array: they cover
\* every class of allChars, every length from 12 to 16, and a value past
\* both moduli.
Samples == {0, 26, 52, 62, 73, 84, 85, 2147483647}

randomInt(min, max, sample) == min + (sample % (max - min + 1))

randomChar(source, sample) == source[(sample % Len(source)) + 1]

Concat(password, c) ==
  [len |-> password.len + 1, classes |-> password.classes \cup {c}]

\* passwordHasRequirements without the test for a digit.
passwordHasRequirementsNoDigit(password) ==
  LET hasUpper == "upper" \in password.classes
      hasLower == "lower" \in password.classes
      hasSymbol == password.classes \cap {"symbol", "underscore"} # {}
  IN  hasUpper /\ hasLower /\ hasSymbol

passwordHasRequirements(password) ==
  LET hasUpper == "upper" \in password.classes
      hasLower == "lower" \in password.classes
      hasNumber == "digit" \in password.classes
      hasSymbol == password.classes \cap {"symbol", "underscore"} # {}
  IN  hasUpper /\ hasLower /\ hasNumber /\ hasSymbol

allChars == LETTERS \o LETTERS_UPPER \o NUMBERS \o SYMBOLS

\* Entry of generateSecurePassword: the length is drawn, the password is
\* empty.
Enter(sample, depth, tailCalls) ==
  [pc |-> "fill", length |-> randomInt(12, 16, sample), password |-> EmptyPassword,
   depth |-> depth, tailCalls |-> tailCalls]

Filled == gen.pc = "fill" /\ gen.password.len >= gen.length

genFrame == <<db, dbFallback, inserted, nCalls, last, target, app, pure>>

InitGen ==
  /\ db = DbInit(TRUE)
  /\ dbFallback = DbInit(FALSE)
  /\ inserted = {}
  /\ nCalls = 0
  /\ last = NoCall
  /\ target = "none"
  /\ app = AppInit(FALSE, FALSE, FALSE)
  /\ gen = GenIdle
  /\ pure = NoInput

\* A caller calls generateSecurePassword(). The call "return
\* generateSecurePassword()" is in tail position in strict-mode code: an
\* engine with proper tail calls reuses the frame, any other pushes one.
generateSecurePassword ==
  /\ gen.pc \in {"idle", "returned", "threw"}
  /\ \E sample \in Samples, tailCalls \in BOOLEAN :
       gen' = Enter(sample, 0, tailCalls)
  /\ UNCHANGED genFrame

\* One turn of the while loop.
AppendChar ==
  /\ gen.pc = "fill"
  /\ gen.password.len < gen.length
  /\ \E sample \in Samples :
       gen' = [gen EXCEPT !.password = Concat(@, randomChar(allChars, sample))]
  /\ UNCHANGED genFrame

\* A return that skips the test of passwordHasRequirements.
ReturnUnchecked ==
  /\ Filled
  /\ gen' = [gen EXCEPT !.pc = "returned"]
  /\ UNCHANGED genFrame

\* The password has the four classes: it is returned.
ReturnPassword ==
  /\ Filled
  /\ passwordHasRequirements(gen.password)
  /\ gen' = [gen EXCEPT !.pc = "returned"]
  /\ UNCHANGED genFrame

\* A class is missing: the function calls itself.
Regenerate ==
  /\ Filled
  /\ ~passwordHasRequirements(gen.password)
  /\ gen.tailCalls \/ gen.depth < StackLimit
  /\ \E sample \in Samples :
       gen' = Enter(sample, IF gen.tailCalls THEN gen.depth ELSE gen.depth + 1,
                    gen.tailCalls)
  /\ UNCHANGED genFrame

\* A class is missing and the call stack is full: the recursive call throws
\* a RangeError, which every frame passes up to the caller.
StackOverflow ==
  /\ Filled
  /\ ~passwordHasRequirements(gen.password)
  /\ ~gen.tailCalls
  /\ gen.depth = StackLimit
  /\ gen' = [gen EXCEPT !.pc = "threw"]
  /\ UNCHANGED genFrame

NextGen ==
  \/ generateSecurePassword
  \/ AppendChar
  \/ ReturnPassword
  \/ Regenerate
  \/ StackOverflow

SpecGen == InitGen /\ [][NextGen]_vars

\* ------------------------------------------------- claims on SpecGen

\* C10: whatever the random source yields, a call of
\* generateSecurePassword never surfaces an error to its caller: once the
\* attempts are exhausted it builds a password instead of throwing.
C10_NoErrorSurfaces == gen.pc # "threw"

\* C11: every password generateSecurePassword returns is 12 to 16
\* characters long and holds a lowercase letter, an uppercase letter, a
\* digit and a symbol, whatever samples led to the return.
C11_ReturnedPasswordValid ==
  gen.pc = "returned" =>
    /\ gen.password.len \in 12..16
    /\ {"lower", "upper", "digit"} \subseteq gen.password.classes
    /\ \E c \in gen.password.classes : c \in {"symbol", "underscore"}

\* A password of 16 characters is returned from a recursive call, its only
\* symbol being the underscore.
C11_Witness ==
  /\ gen.pc = "returned"
  /\ gen.depth > 0
  /\ gen.password.len = 16
  /\ gen.password.classes = {"lower", "upper", "digit", "underscore"}

\* A returned password has the drawn length and the four classes.
ReturnedMeetsRequirements ==
  gen.pc = "returned" =>
    /\ gen.password.len = gen.length
    /\ gen.length \in 12..16
    /\ passwordHasRequirements(gen.password)

\* =====================================================================
\* utils.ts: evaluateStrength
\* =====================================================================
\* evaluateStrength looks at the length of the string, at the classes of
\* its characters and at the number of distinct characters.  A string is
\* modelled by its length and, for each class, the number of distinct
\* characters of the class it holds; "symbol" stands for every character
\* that is neither a letter, a digit nor "_".

MaxPasswordLen == 14

CharClasses == {"lower", "upper", "digit", "symbol", "underscore"}

\* Characters a class has.
AlphabetSize(c) ==
  IF c = "underscore" THEN 1
  ELSE IF c = "digit" THEN Len(NUMBERS)
  ELSE Len(LETTERS)

EmptyString == [len |-> 0, distinct |-> [c \in CharClasses |-> 0]]

RECURSIVE SumOver(_, _)
SumOver(f, S) ==
  IF S = {} THEN 0
  ELSE LET c == CHOOSE x \in S : TRUE IN f[c] + SumOver(f, S \ {c})

\* new Set(password).size
SetSize(password) == SumOver(password.distinct, CharClasses)

\* regex.test(password) for a character class
Test(password, classes) == \E c \in classes : password.distinct[c] > 0

Tier(score) ==
  IF score <= 3 THEN "weak"
  ELSE IF score <= 5 THEN "medium"
  ELSE "strong"

\* evaluateStrength without the test of the distinct characters.
evaluateStrengthNoDiversity(password) ==
  LET s1 == IF password.len >= 12 THEN 1 ELSE 0
      s2 == IF password.len >= 14 THEN s1 + 1 ELSE s1
      s3 == IF Test(password, {"upper"}) THEN s2 + 1 ELSE s2
      s4 == IF Test(password, {"lower"}) THEN s3 + 1 ELSE s3
      s5 == IF Test(password, {"digit"}) THEN s4 + 1 ELSE s4
      s6 == IF Test(password, {"symbol"}) THEN s5 + 1 ELSE s5
  IN Tier(s6)

\* evaluateStrength with "score <= 4" for weak.
evaluateStrengthStrict(password) ==
  LET s == Cardinality({k \in 1..2 : password.len >= 10 + 2 * k})
           + Cardinality({c \in {"upper", "lower", "digit", "symbol"} :
                            password.distinct[c] > 0})
           + (IF SetSize(password) >= password.len - 2 THEN 1 ELSE 0)
  IN IF s <= 4 THEN "weak" ELSE IF s <= 5 THEN "medium" ELSE "strong"

evaluateStrength(password) ==
  LET uniqueChars == SetSize(password)
      s1 == IF password.len >= 12 THEN 1 ELSE 0
      s2 == IF password.len >= 14 THEN s1 + 1 ELSE s1
      s3 == IF Test(password, {"upper"}) THEN s2 + 1 ELSE s2
      s4 == IF Test(password, {"lower"}) THEN s3 + 1 ELSE s3
      s5 == IF Test(password, {"digit"}) THEN s4 + 1 ELSE s4
      s6 == IF Test(password, {"symbol"}) THEN s5 + 1 ELSE s5
      score == IF uniqueChars >= password.len - 2 THEN s6 + 1 ELSE s6
  IN Tier(score)

Evaluated(password) ==
  [fn |-> "evaluateStrength", password |-> password,
   result |-> evaluateStrength(password)]

pureFrame == <<db, dbFallback, inserted, nCalls, last, target, app, gen>>

InitStrength ==
  /\ db = DbInit(TRUE)
  /\ dbFallback = DbInit(FALSE)
  /\ inserted = {}
  /\ nCalls = 0
  /\ last = NoCall
  /\ target = "none"
  /\ app = AppInit(FALSE, FALSE, FALSE)
  /\ gen = GenIdle
  /\ pure = Evaluated(EmptyString)

\* evaluateStrength is called on the string extended by a character it
\* does not hold yet.
EvaluateWithNewChar ==
  /\ pure.password.len < MaxPasswordLen
  /\ \E c \in CharClasses :
       /\ pure.password.distinct[c] < AlphabetSize(c)
       /\ pure' = Evaluated([len |-> pure.password.len + 1,
                             distinct |-> [pure.password.distinct EXCEPT ![c] = @ + 1]])
  /\ UNCHANGED pureFrame

\* evaluateStrength is called on the string extended by a character it
\* already holds.
EvaluateWithRepeatedChar ==
  /\ pure.password.len < MaxPasswordLen
  /\ \E c \in CharClasses :
       /\ pure.password.distinct[c] > 0
       /\ pure' = Evaluated([pure.password EXCEPT !.len = @ + 1])
  /\ UNCHANGED pureFrame

NextStrength ==
  \/ EvaluateWithNewChar
  \/ EvaluateWithRepeatedChar

SpecStrength == InitStrength /\ [][NextStrength]_vars

\* -------------------------------------------- claims on SpecStrength

\* The seven signals of the reference scoring.
Signals == {"len12", "len14", "upper", "lower", "digit", "nonword", "diverse"}

Signal(k, p) ==
  CASE k = "len12" -> p.len >= 12
    [] k = "len14" -> p.len >= 14
    [] k = "upper" -> p.distinct["upper"] > 0
    [] k = "lower" -> p.distinct["lower"] > 0
    [] k = "digit" -> p.distinct["digit"] > 0
    [] k = "nonword" -> p.distinct["symbol"] > 0
    [] k = "diverse" ->
         p.distinct["upper"] + p.distinct["lower"] + p.distinct["digit"]
           + p.distinct["symbol"] + p.distinct["underscore"] >= p.len - 2

ReferenceScore(p) == Cardinality({k \in Signals : Signal(k, p)})

\* C12: evaluateStrength(p) is the tier of the reference score, the number
\* of the seven signals that hold of p: weak up to 3, medium for 4 and 5,
\* strong from 6, for every string including the empty one and those
\* shorter than 3 characters.
C12_MatchesReferenceScoring ==
  pure.fn = "evaluateStrength" =>
    LET score == ReferenceScore(pure.password)
    IN /\ score <= 3 => pure.result = "weak"
       /\ score \in 4..5 => pure.result = "medium"
       /\ score >= 6 => pure.result = "strong"

\* A string of 14 characters with all seven signals is strong.
C12_Witness ==
  /\ pure.fn = "evaluateStrength"
  /\ pure.password.len = 14
  /\ ReferenceScore(pure.password) = 7
  /\ pure.result = "strong"

\* The string has the four classes of the generator; "_" is one of the
\* generator's symbols.
HasFourClasses(p) ==
  /\ p.distinct["upper"] > 0
  /\ p.distinct["lower"] > 0
  /\ p.distinct["digit"] > 0
  /\ p.distinct["symbol"] > 0 \/ p.distinct["underscore"] > 0

\* C13: a string of 12 or more characters with an uppercase letter, a
\* lowercase letter, a digit and a symbol ("_" included) is medium or
\* strong, never weak, and a repeated call gives the same tier.
C13_FourClassesNeverWeak ==
  (pure.fn = "evaluateStrength" /\ pure.password.len >= 12
     /\ HasFourClasses(pure.password)) =>
    /\ pure.result \in {"medium", "strong"}
    /\ evaluateStrength(pure.password) = pure.result

\* The weakest such string: 12 characters, "_" its only symbol, fewer than
\* 10 distinct characters.
C13_Witness ==
  /\ pure.fn = "evaluateStrength"
  /\ pure.password.len = 12
  /\ HasFourClasses(pure.password)
  /\ pure.password.distinct["symbol"] = 0
  /\ ReferenceScore(pure.password) = 4
  /\ pure.result = "medium"

\* ------------------------- generateSecurePassword into evaluateStrength
\* handleGenerateCredential gives evaluateStrength the string that
\* generateSecurePassword returned.  The generator's state keeps the length
\* and the classes of the string; the strings it stands for differ in how
\* many distinct characters of each class they hold.
DistinctRange(password, c) ==
  IF c \in password.classes
  THEN 1..Min(AlphabetSize(c), password.len)
  ELSE {0}

StringsOf(password) ==
  {p \in {[len |-> password.len,
           distinct |-> [lower |-> a, upper |-> b, digit |-> c, symbol |-> d,
                         underscore |-> e]] :
            a \in DistinctRange(password, "lower"),
            b \in DistinctRange(password, "upper"),
            c \in DistinctRange(password, "digit"),
            d \in DistinctRange(password, "symbol"),
            e \in DistinctRange(password, "underscore")} :
     SetSize(p) <= p.len}

\* C31: every credential record handleGenerateCredential creates has
\* strength medium or strong, never weak: every string
\* generateSecurePassword returns scores at least 4 in evaluateStrength,
\* also when its only symbol is the underscore.
C31_GeneratedNeverWeak ==
  gen.pc = "returned" =>
    \A p \in StringsOf(gen.password) :
      /\ evaluateStrength(p) \in {"medium", "strong"}
      /\ ReferenceScore(p) >= 4

\* A returned password of 12 characters whose only symbol is the
\* underscore: with many repeated characters it scores exactly 4.
C31_Witness ==
  /\ gen.pc = "returned"
  /\ gen.password.len = 12
  /\ gen.password.classes = {"lower", "upper", "digit", "underscore"}
  /\ \E p \in StringsOf(gen.password) :
       ReferenceScore(p) = 4 /\ evaluateStrength(p) = "medium"

\* =====================================================================
\* utils.ts: extractOtp
\* =====================================================================
\* A text is a sequence of characters: "a" stands for a letter, " " for a
\* space or a punctuation mark, "_" and the digits for themselves.

MaxTokens == 3    \* pieces a text is put together from
MaxRun == 10      \* digits of the longest number in a text

Digits == {"0", "1", "2", "3", "4", "5", "6", "7", "8", "9"}

IsDigit(c) == c \in Digits

\* \w
IsWord(c) == IsDigit(c) \/ c \in {"a", "_"}

\* A \b that holds everywhere.
NoBoundary(text, i) == i \in 0..Len(text)

\* \b between text[i] and text[i + 1]; i = 0 is the start of the text.
Boundary(text, i) ==
  LET before == i >= 1 /\ IsWord(text[i])
      after == i < Len(text) /\ IsWord(text[i + 1])
  IN before # after

\* \d{n} at text[i]
DigitsAt(text, i, n) ==
  /\ i + n - 1 <= Len(text)
  /\ \A k \in i..(i + n - 1) : IsDigit(text[k])

\* \b\d{n}\b at text[i]
AlternativeAt(text, i, n) ==
  /\ Boundary(text, i - 1)
  /\ DigitsAt(text, i, n)
  /\ Boundary(text, i + n - 1)

\* The alternatives of the pattern, in its order.
Alternatives == <<4, 6, 8>>

NoMatch == [found |-> FALSE, index |-> 0, code |-> <<>>]

\* text.match(/\b\d{4}\b|\b\d{6}\b|\b\d{8}\b/): the leftmost position where
\* an alternative matches, and there the first alternative that does.
Match(text) ==
  LET starts == {i \in 1..Len(text) :
                   \E k \in DOMAIN Alternatives : AlternativeAt(text, i, Alternatives[k])}
  IN IF starts = {} THEN NoMatch
     ELSE LET i == CHOOSE x \in starts : \A y \in starts : x <= y
              k == CHOOSE x \in DOMAIN Alternatives :
                     /\ AlternativeAt(text, i, Alternatives[x])
                     /\ \A y \in DOMAIN Alternatives :
                          AlternativeAt(text, i, Alternatives[y]) => x <= y
          IN [found |-> TRUE, index |-> i,
              code |-> SubSeq(text, i, i + Alternatives[k] - 1)]

\* extractOtp(text): found is FALSE for null.
extractOtp(text) ==
  LET match == Match(text)
  IN [found |-> match.found, code |-> match.code]

\* The pieces of a text: a letter, "_", a space, or a number of 1 to MaxRun
\* digits; the number at place k is written with the digit k.
DigitOf == <<"1", "2", "3", "4", "5", "6", "7", "8", "9">>

Tokens == {[c |-> x, n |-> 1] : x \in {"a", "_", " "}}
            \cup {[c |-> "digit", n |-> k] : k \in 1..MaxRun}

RECURSIVE Expand(_, _)
Expand(tokens, k) ==
  IF k > Len(tokens) THEN <<>>
  ELSE LET tok == tokens[k]
           piece == [i \in 1..tok.n |-> IF tok.c = "digit" THEN DigitOf[k] ELSE tok.c]
       IN piece \o Expand(tokens, k + 1)

Texts ==
  {Expand(tokens, 1) : tokens \in UNION {[1..n -> Tokens] : n \in 0..MaxTokens}}

InitOtp ==
  /\ db = DbInit(TRUE)
  /\ dbFallback = DbInit(FALSE)
  /\ inserted = {}
  /\ nCalls = 0
  /\ last = NoCall
  /\ target = "none"
  /\ app = AppInit(FALSE, FALSE, FALSE)
  /\ gen = GenIdle
  /\ pure \in {[fn |-> "extractOtp", text |-> text, done |-> FALSE,
                result |-> extractOtp(<<>>)] : text \in Texts}

ExtractOtp ==
  /\ pure.fn = "extractOtp"
  /\ ~pure.done
  /\ pure' = [pure EXCEPT !.done = TRUE, !.result = extractOtp(pure.text)]
  /\ UNCHANGED pureFrame

NextOtp == ExtractOtp

SpecOtp == InitOtp /\ [][NextOtp]_vars

\* --------------------------------------------------- claims on SpecOtp

\* text[i .. i + n - 1] is a run of digits with no digit next to it.
MaximalRunAt(text, i, n) ==
  /\ DigitsAt(text, i, n)
  /\ i = 1 \/ ~IsDigit(text[i - 1])
  /\ i + n - 1 = Len(text) \/ ~IsDigit(text[i + n])

OtpRuns(text) ==
  {i \in 1..Len(text) : \E n \in {4, 6, 8} : MaximalRunAt(text, i, n)}

\* C14: extractOtp returns the leftmost run of exactly 4, 6 or 8 digits
\* that has no digit next to it, a letter or "_" next to the run
\* notwithstanding, and returns nothing exactly when the text has no such
\* run.
C14_FindsLeftmostRun ==
  (pure.fn = "extractOtp" /\ pure.done) =>
    LET runs == OtpRuns(pure.text)
    IN IF runs = {} THEN ~pure.result.found
       ELSE LET i == CHOOSE x \in runs : \A y \in runs : x <= y
                n == CHOOSE x \in {4, 6, 8} : MaximalRunAt(pure.text, i, x)
            IN /\ pure.result.found
               /\ pure.result.code = SubSeq(pure.text, i, i + n - 1)

\* C15: a code extractOtp returns is a whole run of 4, 6 or 8 digits of
\* the text: the characters before and after it are not digits, so it is
\* never cut out of a longer number.
C15_CodeIsMaximalRun ==
  (pure.fn = "extractOtp" /\ pure.done /\ pure.result.found) =>
    LET match == Match(pure.text)
    IN /\ pure.result.code = match.code
       /\ Len(match.code) \in {4, 6, 8}
       /\ MaximalRunAt(pure.text, match.index, Len(match.code))

\* The text starts with a number of 10 digits and the code returned is the
\* number of 4 digits that follows it.
C15_Witness ==
  /\ pure.fn = "extractOtp"
  /\ pure.done
  /\ Len(pure.text) = 15
  /\ MaximalRunAt(pure.text, 1, 10)
  /\ pure.result.found
  /\ pure.result.code = SubSeq(pure.text, 12, 15)

\* =====================================================================
\* utils.ts: generateRandomEmail
\* =====================================================================
\* As for the passwords, a generated character is modelled by its class.
\* An address is the local part, the "@" of the template literal and the
\* domain.

EMAIL_DOMAINS ==
  <<"guerrillamail.com", "mailinator.com", "tempmail.org", "10minutemail.com",
    "maildrop.cc", "inboxkitten.com", "dispostable.com", "temp-mail.io",
    "yopmail.com", "mintemail.com", "fakeinbox.com", "mailcatch.com">>

\* A word of n lowercase letters.
Word(text, n) == [text |-> text, chars |-> Repeat("lower", n)]

phoneticPrefixes ==
  <<Word("alpha", 5), Word("bravo", 5), Word("charlie", 7), Word("delta", 5),
    Word("echo", 4), Word("foxtrot", 7), Word("gamma", 5), Word("helios", 6),
    Word("ion", 3), Word("juno", 4), Word("kilo", 4), Word("lima", 4),
    Word("nova", 4), Word("orion", 5), Word("pluto", 5), Word("quantum", 7)>>

EmailSamples == Samples \cup 0..15

\* let local = phoneticPrefixes[...]
StartLocal(prefix) ==
  [prefix |-> prefix.text, len |-> Len(prefix.chars), classes |-> SeqToSet(prefix.chars)]

\* local += randomChar(set)
AppendTo(local, c) ==
  [local EXCEPT !.len = @ + 1, !.classes = @ \cup {c}]

NoEmail == [local |-> StartLocal(Word("", 0)), at |-> "", domain |-> ""]

\* A caller calls generateRandomEmail(): localLength and the prefix are
\* drawn.
generateRandomEmail ==
  /\ pure.fn = "generateRandomEmail"
  /\ pure.pc \in {"idle", "returned"}
  /\ \E s1 \in EmailSamples, s2 \in EmailSamples :
       pure' = [fn |-> "generateRandomEmail", pc |-> "pad",
                localLength |-> randomInt(8, 12, s1),
                local |-> StartLocal(phoneticPrefixes[
                            randomInt(0, Len(phoneticPrefixes) - 1, s2) + 1]),
                email |-> NoEmail]
  /\ UNCHANGED pureFrame

\* A turn of the loop that appends a character of any class.
AppendAnyChar ==
  /\ pure.fn = "generateRandomEmail"
  /\ pure.pc = "pad"
  /\ pure.local.len < pure.localLength
  /\ \E s \in EmailSamples :
       pure' = [pure EXCEPT !.local = AppendTo(@, randomChar(allChars, s))]
  /\ UNCHANGED pureFrame

\* One turn of the while loop: a letter or a digit is appended.
AppendLocalChar ==
  /\ pure.fn = "generateRandomEmail"
  /\ pure.pc = "pad"
  /\ pure.local.len < pure.localLength
  /\ \E s1 \in EmailSamples, s2 \in EmailSamples :
       LET set == IF randomInt(0, 1, s1) = 0 THEN LETTERS ELSE NUMBERS
       IN pure' = [pure EXCEPT !.local = AppendTo(@, randomChar(set, s2))]
  /\ UNCHANGED pureFrame

\* return `${local}@${EMAIL_DOMAINS[...]}`
ReturnEmail ==
  /\ pure.fn = "generateRandomEmail"
  /\ pure.pc = "pad"
  /\ pure.local.len >= pure.localLength
  /\ \E s \in EmailSamples :
       pure' = [pure EXCEPT
                  !.pc = "returned",
                  !.email = [local |-> pure.local, at |-> "@",
                             domain |-> EMAIL_DOMAINS[
                               randomInt(0, Len(EMAIL_DOMAINS) - 1, s) + 1]]]
  /\ UNCHANGED pureFrame

InitEmail ==
  /\ db = DbInit(TRUE)
  /\ dbFallback = DbInit(FALSE)
  /\ inserted = {}
  /\ nCalls = 0
  /\ last = NoCall
  /\ target = "none"
  /\ app = AppInit(FALSE, FALSE, FALSE)
  /\ gen = GenIdle
  /\ pure = [fn |-> "generateRandomEmail", pc |-> "idle", localLength |-> 0,
             local |-> NoEmail.local, email |-> NoEmail]

NextEmail ==
  \/ generateRandomEmail
  \/ AppendLocalChar
  \/ ReturnEmail

SpecEmail == InitEmail /\ [][NextEmail]_vars

\* ------------------------------------------------- claims on SpecEmail

\* C16: whatever the samples, the address returned has one "@", a domain
\* of EMAIL_DOMAINS and a local part of 8 to 12 characters that starts with
\* a phonetic prefix and holds lowercase letters and digits only.
C16_EmailWellFormed ==
  (pure.fn = "generateRandomEmail" /\ pure.pc = "returned") =>
    /\ pure.email.at = "@"
    /\ "at" \notin pure.email.local.classes
    /\ pure.email.domain \in SeqToSet(EMAIL_DOMAINS)
    /\ pure.email.local.len \in 8..12
    /\ pure.email.local.classes \subseteq {"lower", "digit"}
    /\ \E k \in DOMAIN phoneticPrefixes :
         /\ pure.email.local.prefix = phoneticPrefixes[k].text
         /\ Len(phoneticPrefixes[k].chars) <= pure.email.local.len

\* The shortest prefix padded to the longest local part, with digits, at
\* a domain that starts with a digit.
C16_Witness ==
  /\ pure.fn = "generateRandomEmail"
  /\ pure.pc = "returned"
  /\ pure.email.local.prefix = "ion"
  /\ pure.email.local.len = 12
  /\ pure.email.local.classes = {"lower", "digit"}
  /\ pure.email.domain = "10minutemail.com"

\* =====================================================================
\* types.ts: createMessageRecord
\* =====================================================================
\* A subject or body template is a sequence of characters as for
\* extractOtp ("a" for a run of letters, " " for a run of spaces and
\* punctuation marks), with the item "%CODE%" for the placeholder.

OTP_LENGTHS == <<4, 6, 8>>

RECURSIVE Words(_)
Words(n) == IF n = 1 THEN <<"a">> ELSE <<"a", " ">> \o Words(n - 1)
Sep == <<" ">>
Code == <<"%CODE%">>

messageTemplates ==
  <<
    [sender |-> "Google",
     subjects |-> <<Words(3) \o Sep \o Code,
                    Words(3) \o Sep \o Code>>,
     bodies |-> <<Words(5) \o Sep \o Code \o Sep \o Words(4) \o Sep \o <<"1", "0">> \o Sep \o Words(3) \o Sep,
                  Words(8) \o Sep \o Code \o Sep \o Words(5) \o Sep>>],
    [sender |-> "Facebook",
     subjects |-> <<Words(3) \o Sep \o Code,
                    Words(3) \o Sep \o Code>>,
     bodies |-> <<Words(8) \o Sep \o Code \o Sep \o Words(5) \o Sep,
                  Words(6) \o Sep \o Code \o Sep \o Words(3) \o Sep>>],
    [sender |-> "WhatsApp",
     subjects |-> <<Words(2) \o Sep \o Code,
                    Words(3) \o Sep \o Code>>,
     bodies |-> <<Words(5) \o Sep \o Code \o Sep \o Words(4) \o Sep,
                  Words(2) \o Sep \o Code \o Sep \o Words(8) \o Sep>>],
    [sender |-> "Instagram",
     subjects |-> <<Words(2) \o Sep \o Code,
                    Words(3) \o Sep \o Code>>,
     bodies |-> <<Words(1) \o Sep \o Code \o Sep \o Words(6) \o Sep,
                  Words(7) \o Sep \o Code \o Sep \o Words(4) \o Sep>>],
    [sender |-> "Twitter",
     subjects |-> <<Words(3) \o Sep \o Code,
                    Words(3) \o Sep \o Code>>,
     bodies |-> <<Words(1) \o Sep \o Code \o Sep \o Words(10) \o Sep,
                  Words(1) \o Sep \o Code \o Sep \o Words(7) \o Sep>>],
    [sender |-> "LinkedIn",
     subjects |-> <<Words(3) \o Sep \o Code,
                    Words(3) \o Sep \o Code>>,
     bodies |-> <<Words(1) \o Sep \o Code \o Sep \o Words(6) \o Sep,
                  Words(5) \o Sep \o Code \o Sep \o Words(2) \o Sep>>],
    [sender |-> "Amazon",
     subjects |-> <<Words(2) \o Sep \o Code,
                    Words(3) \o Sep \o Code>>,
     bodies |-> <<Words(4) \o Sep \o Code \o Sep \o Words(4) \o Sep,
                  Words(1) \o Sep \o Code \o Sep \o Words(6) \o Sep>>],
    [sender |-> "Apple",
     subjects |-> <<Words(4) \o Sep \o Code,
                    Words(3) \o Sep \o Code>>,
     bodies |-> <<Words(1) \o Sep \o Code \o Sep \o Words(6) \o Sep,
                  Words(3) \o Sep \o Code \o Sep \o Words(4) \o Sep>>],
    [sender |-> "Microsoft",
     subjects |-> <<Words(3) \o Sep \o Code,
                    Words(3) \o Sep \o Code>>,
     bodies |-> <<Words(6) \o Sep \o Code \o Sep,
                  Words(4) \o Sep \o Code \o Sep \o Words(6) \o Sep>>],
    [sender |-> "PayPal",
     subjects |-> <<Words(2) \o Sep \o Code,
                    Words(3) \o Sep \o Code>>,
     bodies |-> <<Words(1) \o Sep \o Code \o Sep \o Words(8) \o Sep,
                  Words(2) \o Sep \o Code \o Sep \o Words(3) \o Sep \o <<"5">> \o Sep \o Words(1) \o Sep>>],
    [sender |-> "Netflix",
     subjects |-> <<Words(3) \o Sep \o Code,
                    Words(3) \o Sep \o Code>>,
     bodies |-> <<Words(3) \o Sep \o Code \o Sep,
                  Words(6) \o Sep \o Code \o Sep \o Words(4) \o Sep>>],
    [sender |-> "Uber",
     subjects |-> <<Words(2) \o Sep \o Code,
                    Words(3) \o Sep \o Code>>,
     bodies |-> <<Words(1) \o Sep \o Code \o Sep \o Words(7) \o Sep,
                  Words(4) \o Sep \o Code \o Sep>>],
    [sender |-> "Slack",
     subjects |-> <<Words(3) \o Sep \o Code,
                    Words(3) \o Sep \o Code>>,
     bodies |-> <<Words(3) \o Sep \o Code \o Sep,
                  Words(1) \o Sep \o Code \o Sep \o Words(5) \o Sep>>],
    [sender |-> "Zoom",
     subjects |-> <<Words(3) \o Sep \o Code,
                    Words(3) \o Sep \o Code>>,
     bodies |-> <<Words(6) \o Sep \o Code \o Sep,
                  Words(2) \o Sep \o Code \o Sep \o Words(3) \o Sep>>],
    [sender |-> "Dropbox",
     subjects |-> <<Words(4) \o Sep \o Code,
                    Words(3) \o Sep \o Code>>,
     bodies |-> <<Words(2) \o Sep \o Code \o Sep \o Words(4) \o Sep,
                  Words(6) \o Sep \o Code \o Sep \o Words(4) \o Sep>>],
    [sender |-> "GitHub",
     subjects |-> <<Words(1) \o Sep \o <<"2">> \o Words(2) \o Sep \o Code,
                    Words(3) \o Sep \o Code>>,
     bodies |-> <<Words(5) \o Sep \o Code \o Sep,
                  Words(3) \o Sep \o Code \o Sep \o Words(4) \o Sep>>],
    [sender |-> "Snapchat",
     subjects |-> <<Words(3) \o Sep \o Code,
                    Words(3) \o Sep \o Code>>,
     bodies |-> <<Words(1) \o Sep \o Code \o Sep \o Words(6) \o Sep,
                  Words(3) \o Sep \o Code \o Sep>>],
    [sender |-> "Telegram",
     subjects |-> <<Words(2) \o Sep \o Code,
                    Words(3) \o Sep \o Code>>,
     bodies |-> <<Words(3) \o Sep \o Code \o Sep,
                  Words(1) \o Sep \o Code \o Sep \o Words(4) \o Sep>>],
    [sender |-> "Stripe",
     subjects |-> <<Words(2) \o Sep \o Code,
                    Words(2) \o Sep \o Code>>,
     bodies |-> <<Words(3) \o Sep \o Code \o Sep,
                  Words(1) \o Sep \o Code \o Sep \o Words(6) \o Sep>>],
    [sender |-> "Airbnb",
     subjects |-> <<Words(2) \o Sep \o Code,
                    Words(2) \o Sep \o Code>>,
     bodies |-> <<Words(1) \o Sep \o Code \o Sep \o Words(5) \o Sep,
                  Words(4) \o Sep \o Code \o Sep>>],
    [sender |-> "Spotify",
     subjects |-> <<Words(3) \o Sep \o Code,
                    Words(3) \o Sep \o Code>>,
     bodies |-> <<Words(3) \o Sep \o Code \o Sep,
                  Words(1) \o Sep \o Code \o Sep \o Words(4) \o Sep>>],
    [sender |-> "Discord",
     subjects |-> <<Words(3) \o Sep \o Code,
                    Words(2) \o Sep \o Code>>,
     bodies |-> <<Words(2) \o Sep \o Code \o Sep,
                  Words(2) \o Sep \o Code \o Sep \o Words(3) \o Sep>>]
  >>

\* Number.prototype.toString of a digit
DigitToString(d) == <<"0", "1", "2", "3", "4", "5", "6", "7", "8", "9">>[d + 1]

\* Values of the samples that draw the digits of the code.
DigitSamples == {0, 7}

RECURSIVE StripZeros(_)
StripZeros(digits) ==
  IF Len(digits) > 1 /\ Head(digits) = "0" THEN StripZeros(Tail(digits)) ELSE digits

\* The code accumulated as a number and then converted: leading zeros are
\* lost.
GenerateOtpNumeric(samples) ==
  StripZeros([i \in 1..Len(samples) |-> DigitToString(randomInt(0, 9, samples[i]))])

\* The loop that builds otp, from the samples of its randomInt(0, 9).
RECURSIVE GenerateOtp(_)
GenerateOtp(samples) ==
  IF samples = <<>> THEN <<>>
  ELSE <<DigitToString(randomInt(0, 9, Head(samples)))>> \o GenerateOtp(Tail(samples))

\* template.replace(/%CODE%/g, otp)
RECURSIVE Replace(_, _)
Replace(template, otp) ==
  IF template = <<>> THEN <<>>
  ELSE (IF Head(template) = "%CODE%" THEN otp ELSE <<Head(template)>>)
         \o Replace(Tail(template), otp)

\* extractOtp(body) ?? otp
Detect(body, otp) ==
  LET detectedOtp == extractOtp(body)
  IN IF detectedOtp.found THEN detectedOtp.code ELSE otp

\* The record createMessageRecord returns for the samples in: id and
\* timestamp are left to FreshRecord.
MessageRecord(in) ==
  LET template == messageTemplates[randomInt(0, Len(messageTemplates) - 1, in.template) + 1]
      otp == GenerateOtp(in.digits)
      subjectTemplate == template.subjects[randomInt(0, Len(template.subjects) - 1, in.subject) + 1]
      bodyTemplate == template.bodies[randomInt(0, Len(template.bodies) - 1, in.body) + 1]
      subject == Replace(subjectTemplate, otp)
      body == Replace(bodyTemplate, otp)
  IN [sender |-> template.sender, subject |-> subject, body |-> body,
      otp |-> Detect(body, otp)]

NoMessage == [sender |-> "", subject |-> <<>>, body |-> <<>>, otp |-> <<>>]

\* The samples of one call: the template, the digits (as many as
\* OTP_LENGTHS[randomInt(0, 2)] says), the subject and the body.
MessageInputs ==
  {[template |-> tp, digits |-> ds, subject |-> sj, body |-> bd] :
     tp \in 0..(Len(messageTemplates) - 1),
     ds \in UNION {[1..OTP_LENGTHS[randomInt(0, Len(OTP_LENGTHS) - 1, s) + 1] -> DigitSamples] :
                     s \in 0..2},
     sj \in 0..1, bd \in 0..1}

InitMessage ==
  /\ db = DbInit(TRUE)
  /\ dbFallback = DbInit(FALSE)
  /\ inserted = {}
  /\ nCalls = 0
  /\ last = NoCall
  /\ target = "none"
  /\ app = AppInit(FALSE, FALSE, FALSE)
  /\ gen = GenIdle
  /\ pure \in {[fn |-> "createMessageRecord", in |-> in, done |-> FALSE,
                record |-> NoMessage] : in \in MessageInputs}

SynthesizeRecord ==
  /\ pure.fn = "createMessageRecord"
  /\ ~pure.done
  /\ pure' = [pure EXCEPT !.done = TRUE, !.record = MessageRecord(pure.in)]
  /\ UNCHANGED pureFrame

NextMessage == SynthesizeRecord

SpecMessage == InitMessage /\ [][NextMessage]_vars

\* ----------------------------------------------- claims on SpecMessage

\* The digit string the samples stand for.
GeneratedDigits(samples) ==
  [i \in 1..Len(samples) |->
     <<"0", "1", "2", "3", "4", "5", "6", "7", "8", "9">>[(samples[i] % 10) + 1]]

Contains(text, part) ==
  \E i \in 1..(Len(text) - Len(part) + 1) : SubSeq(text, i, i + Len(part) - 1) = part

\* C17: for every template, subject and body of the catalog and every
\* generated code, the otp of the record is the generated digit string (4,
\* 6 or 8 digits, leading zeros kept, never absent), the subject and the
\* body hold it and no "%CODE%" is left in them; where extractOtp finds
\* nothing in the body the otp is the generated string.
C17_OtpIsGeneratedCode ==
  (pure.fn = "createMessageRecord" /\ pure.done) =>
    LET generated == GeneratedDigits(pure.in.digits)
        record == pure.record
    IN /\ record.otp = generated
       /\ Len(record.otp) \in {4, 6, 8}
       /\ Contains(record.subject, generated)
       /\ Contains(record.body, generated)
       /\ "%CODE%" \notin SeqToSet(record.subject) \cup SeqToSet(record.body)
       /\ ~extractOtp(record.body).found => record.otp = generated

\* A code of 8 digits that starts with a zero, in the body that also holds
\* the number 10.
C17_Witness ==
  /\ pure.fn = "createMessageRecord"
  /\ pure.done
  /\ pure.record.sender = "Google"
  /\ pure.in.body = 0
  /\ Len(pure.record.otp) = 8
  /\ pure.record.otp[1] = "0"
  /\ pure.record.otp[8] = "7"
  /\ Contains(pure.record.body, <<"1", "0">>)

-----------------------------------------------------------------------------
\* The delays of the scheduler (types.ts, scheduleNextMessage with randomInt
\* of utils.ts) and the timers of the window: setTimeout hands out a fresh
\* id and the timer leaves the pending set when it fires.

MaxTimers == 3    \* timers armed in one behaviour

\* Values of the Uint32Array cell: three turns of the 21 residues and the
\* largest values the checker's integers hold.
DelaySamples == 0..62 \cup {2147483626 + k : k \in 0..21}

timerDelayMillis(sample) == randomInt(10000, 30000, sample)

timerDelay(sample) == randomInt(10, 30, sample) * 1000

NoTimers ==
  [fn |-> "scheduleNextMessage", timers |-> {}, generatorTimeout |-> 0,
   nextId |-> 1, fired |-> {}]

\* window.clearTimeout(id)
clearTimeout(p, id) ==
  [p EXCEPT !.timers = {t \in @ : t.id # id}]

\* scheduleNextMessage on the timers of the window
armTimer(p, sample) ==
  LET cleared == IF p.generatorTimeout # 0
                 THEN clearTimeout(p, p.generatorTimeout) ELSE p
  IN [cleared EXCEPT !.timers = @ \cup {[id |-> p.nextId,
                                         delay |-> timerDelay(sample)]},
                     !.generatorTimeout = p.nextId,
                     !.nextId = @ + 1]

InitDelay ==
  /\ db = DbInit(TRUE)
  /\ dbFallback = DbInit(FALSE)
  /\ inserted = {}
  /\ nCalls = 0
  /\ last = NoCall
  /\ target = "none"
  /\ app = AppInit(FALSE, FALSE, FALSE)
  /\ gen = GenIdle
  /\ pure = NoTimers

\* The scheduler effect or a visibility resume calls scheduleNextMessage.
ArmTimer ==
  /\ pure.fn = "scheduleNextMessage"
  /\ pure.nextId <= MaxTimers
  /\ \E sample \in DelaySamples : pure' = armTimer(pure, sample)
  /\ UNCHANGED pureFrame

\* A pending timer fires: it leaves the pending set, and its callback ends
\* with scheduleNextMessage.
FireTimer ==
  /\ pure.fn = "scheduleNextMessage"
  /\ pure.nextId <= MaxTimers
  /\ \E t \in pure.timers : \E sample \in DelaySamples :
       pure' = armTimer([pure EXCEPT !.timers = @ \ {t},
                                     !.fired = @ \cup {t.id}], sample)
  /\ UNCHANGED pureFrame

\* The cleanup of the scheduler effect.
ClearTimer ==
  /\ pure.fn = "scheduleNextMessage"
  /\ pure.generatorTimeout # 0
  /\ pure' = [clearTimeout(pure, pure.generatorTimeout)
                EXCEPT !.generatorTimeout = 0]
  /\ UNCHANGED pureFrame

NextDelay == ArmTimer \/ FireTimer \/ ClearTimer

SpecDelay == InitDelay /\ [][NextDelay]_vars

\* C25: every delay armed by scheduleNextMessage is a whole number of
\* seconds from 10 to 30, in milliseconds from 10000 to 30000, whatever the
\* 32-bit sample; and no timer that has fired is pending again.
C25_DelayWholeSeconds ==
  pure.fn = "scheduleNextMessage" =>
    \A t \in pure.timers :
      /\ t.delay \in 10000..30000
      /\ t.delay % 1000 = 0
      /\ t.id \notin pure.fired

\* After a fire, the timer armed by the callback waits the longest delay.
C25_Witness ==
  /\ pure.fn = "scheduleNextMessage"
  /\ pure.fired # {}
  /\ \E t \in pure.timers : t.delay = 30000 /\ t.id = pure.generatorTimeout

-----------------------------------------------------------------------------
\* The database connections of the db module (types.ts): openDatabase
\* resolves with a connection, the caller runs one transaction on it and
\* calls db.close() after the awaited transaction.  A call is a record:
\*   fn    the exported function called
\*   pc    "open": awaiting openDatabase; "put", "read": awaiting the
\*         transaction; "trimOpen", "trim": the same two awaits inside
\*         trimStore; "resolved", "rejected": settled
\*   conn  whether the connection the call opened is open

MaxConnCalls == 2    \* calls made in one behaviour

DbFunctions ==
  {"persistCredential", "persistMessage", "loadCredentials", "loadMessages"}

IsPersist(fn) == fn \in {"persistCredential", "persistMessage"}

\* The call up to its first await.
StartCall(fn, idb) ==
  [fn |-> fn, pc |-> IF idb THEN "open" ELSE "resolved", conn |-> FALSE]

\* const db = await openDatabase() has resolved.
Opened(call) ==
  [call EXCEPT !.conn = TRUE,
               !.pc = IF @ = "trimOpen" THEN "trim"
                      ELSE IF IsPersist(call.fn) THEN "put" ELSE "read"]

\* The awaited transaction has completed: db.close(), and the rest of the
\* function.
Completed(call) ==
  [call EXCEPT !.conn = FALSE,
               !.pc = IF @ = "put" THEN "trimOpen" ELSE "resolved"]

\* The awaited promise has rejected: the function is left at the await.
Rejected(call) == [call EXCEPT !.pc = "rejected"]

InitConn ==
  /\ db = DbInit(TRUE)
  /\ dbFallback = DbInit(FALSE)
  /\ inserted = {}
  /\ nCalls = 0
  /\ last = NoCall
  /\ target = "none"
  /\ app = AppInit(FALSE, FALSE, FALSE)
  /\ gen = GenIdle
  /\ pure \in {[fn |-> "db", hasIndexedDB |-> idb, calls |-> <<>>] :
                 idb \in BOOLEAN}

callDbFunction ==
  /\ pure.fn = "db"
  /\ Len(pure.calls) < MaxConnCalls
  /\ \E fn \in DbFunctions :
       pure' = [pure EXCEPT !.calls = Append(@, StartCall(fn, pure.hasIndexedDB))]
  /\ UNCHANGED pureFrame

\* request.onsuccess
openSucceeds ==
  /\ pure.fn = "db"
  /\ \E i \in 1..Len(pure.calls) :
       /\ pure.calls[i].pc \in {"open", "trimOpen"}
       /\ pure' = [pure EXCEPT !.calls[i] = Opened(@)]
  /\ UNCHANGED pureFrame

\* request.onerror
openFails ==
  /\ pure.fn = "db"
  /\ \E i \in 1..Len(pure.calls) :
       /\ pure.calls[i].pc \in {"open", "trimOpen"}
       /\ pure' = [pure EXCEPT !.calls[i] = Rejected(@)]
  /\ UNCHANGED pureFrame

\* tx.oncomplete
transactionCompletes ==
  /\ pure.fn = "db"
  /\ \E i \in 1..Len(pure.calls) :
       /\ pure.calls[i].pc \in {"put", "trim", "read"}
       /\ pure' = [pure EXCEPT !.calls[i] = Completed(@)]
  /\ UNCHANGED pureFrame

\* tx.onerror, cursorRequest.onerror
transactionFails ==
  /\ pure.fn = "db"
  /\ \E i \in 1..Len(pure.calls) :
       /\ pure.calls[i].pc \in {"put", "trim", "read"}
       /\ pure' = [pure EXCEPT !.calls[i] = Rejected(@)]
  /\ UNCHANGED pureFrame

NextConn ==
  \/ callDbFunction
  \/ openSucceeds
  \/ openFails
  \/ transactionCompletes
  \/ transactionFails

SpecConn == InitConn /\ [][NextConn]_vars

Settled(call) == call.pc \in {"resolved", "rejected"}

\* C33: every connection opened by persistCredential, persistMessage,
\* trimStore or fetchRecords is closed by the time the call settles, on the
\* success path and on every failure path, so that failing store
\* operations leave no open connections behind.
C33_ConnectionsClosedAtSettle ==
  pure.fn = "db" =>
    \A i \in 1..Len(pure.calls) :
      Settled(pure.calls[i]) => ~pure.calls[i].conn

\* The success path alone: a call that resolved has closed what it opened,
\* and so has a call that was rejected by openDatabase.
ResolvedCallsClosed ==
  pure.fn = "db" =>
    \A i \in 1..Len(pure.calls) :
      pure.calls[i].pc = "resolved" => ~pure.calls[i].conn

====
